---- MODULE Spec2Model ----
(***************************************************************************)
(* Model of lapce-app/src/editor/diff.rs: the diff editor pairing          *)
(* (DiffEditorData), its change listeners (listen_diff_changes), the diff  *)
(* jobs it spawns and the result gate that publishes a job's changes to    *)
(* the two editor views.                                                   *)
(***************************************************************************)
EXTENDS Integers, Sequences, FiniteSets, TLC

(* ------------------------------ bounds -------------------------------- *)

\* Highest number of changes seen by the change listeners in one run: edits
\* of a document plus editors given another document.
MaxEdits == 3

\* Highest number of diff jobs that are spawned and not yet through the gate.
MaxJobs == 3

(* ------------------------------ universe ------------------------------ *)

\* The documents of the window: a file and a scratch document.
Docs == {"d1", "d2"}

\* DocContent of each document (doc.content): never changed by an edit.
DocContentOf == [d \in Docs |->
                   CASE d = "d1" -> "File"
                     [] OTHER    -> "Local"]

\* The texts a buffer holds, as sequences of lines.
Texts == { <<"a", "b", "c">>, <<"a", "x", "c">> }

\* The rope of a scratch document built by EditorData::new_local.
EmptyText == <<>>

\* The diff pairings: p1 is built by DiffEditorInfo::to_data or
\* DiffEditorData::new, p2 by DiffEditorData::copy.
Pairings == {"p1", "p2"}

VARIABLES
    rev,     \* rev[d]: the buffer's atomic_rev / doc.rev() of document d
    text,    \* text[d]: the buffer's rope of document d
    alive,   \* alive[p]: pairing p has been constructed
    left,    \* left[p]: the document of the left editor of pairing p
    right,   \* right[p]: the document of the right editor of pairing p
    memoL,   \* memoL[p]: value of the left_doc_rev memo, <<content, rev>>
    memoR,   \* memoR[p]: value of the right_doc_rev memo
    viewL,   \* viewL[p]: the left editor's new_view (EditorViewKind)
    viewR,   \* viewR[p]: the right editor's new_view
    jobs,    \* the diff jobs spawned and not yet through the gate
    shown,   \* shown[p]: history, the job that the gate of p published last
    info,    \* the DiffEditorInfo returned by the last diff_editor_info call
    gate,    \* history: the outcome of the last run of a result gate
    repairs, \* history: how many times an editor was given another document
    loaded,  \* loaded[d]: the content of document d has been loaded
    closed,  \* closed[p]: the scope of pairing p has been disposed
    reactive,\* what the reactive thread is in the middle of: Idle or a gate
    touched, \* history: a signal was updated with the same content and rev
    skipped  \* history: the revisions <<d, n>> no signal update ended on

vars == <<rev, text, alive, left, right, memoL, memoR, viewL, viewR, jobs,
          shown, info, gate, repairs, loaded, closed, reactive, touched,
          skipped>>

\* The variables that only the loading of a file, the disposal of a scope,
\* the steps of a gate and the history of the signal updates change.
aux == <<loaded, closed, reactive, touched, skipped>>

(* --------------------------- values and helpers ------------------------ *)

\* EditorViewKind::Normal, the view kind of a freshly built editor.
NormalView == [kind |-> "Normal", is_right |-> FALSE, changes |-> <<>>]

\* EditorViewKind::Diff(DiffInfo { is_right, changes }).
DiffView(is_right, changes) ==
    [kind |-> "Diff", is_right |-> is_right, changes |-> changes]

\* Option<im::Vector<DiffLines>>.
None == [some |-> FALSE, changes |-> <<>>]
Some(changes) == [some |-> TRUE, changes |-> changes]

Min(a, b) == IF a <= b THEN a ELSE b

\* Length of the longest common prefix of two line sequences.
RECURSIVE CommonPrefix(_, _)
CommonPrefix(a, b) ==
    IF a = <<>> \/ b = <<>> \/ Head(a) # Head(b)
    THEN 0
    ELSE 1 + CommonPrefix(Tail(a), Tail(b))

Reverse(s) == [i \in 1..Len(s) |-> s[Len(s) + 1 - i]]

\* DiffLines of two ropes: the unchanged head, the lines only on the left,
\* the lines only on the right, the unchanged tail; empty blocks are left out.
LineDiff(l, r) ==
    LET pre  == CommonPrefix(l, r)
        suf  == Min(CommonPrefix(Reverse(l), Reverse(r)),
                    Min(Len(l), Len(r)) - pre)
        head == IF pre > 0
                THEN << [tag |-> "Both", l |-> <<0, pre>>, r |-> <<0, pre>>] >>
                ELSE <<>>
        lmid == IF Len(l) - suf > pre
                THEN << [tag |-> "Left", l |-> <<pre, Len(l) - suf>>,
                         r |-> <<pre, pre>>] >>
                ELSE <<>>
        rmid == IF Len(r) - suf > pre
                THEN << [tag |-> "Right", l |-> <<pre, pre>>,
                         r |-> <<pre, Len(r) - suf>>] >>
                ELSE <<>>
        tail == IF suf > 0
                THEN << [tag |-> "Both", l |-> <<Len(l) - suf, Len(l)>>,
                         r |-> <<Len(r) - suf, Len(r)>>] >>
                ELSE <<>>
    IN  head \o lmid \o rmid \o tail

\* rope_diff(left_rope, right_rope, rev, atomic_rev, Some(3)): the results
\* the worker can return when the atomic revision reads `current`: the
\* changes, or None when it notices that rev is no longer current.
rope_diff(left_rope, right_rope, r, current) ==
    IF current # r
    THEN {None, Some(LineDiff(left_rope, right_rope))}
    ELSE {Some(LineDiff(left_rope, right_rope))}

\* The value a side's memo computes: (doc.content.clone(), doc.rev()).
DocRev(d, revs) == <<DocContentOf[d], revs[d]>>

\* The job the effect spawns for pairing p: the revisions come from the two
\* memos (lrev, rrev), the documents, views and ropes are read untracked.
\* dup tells apart the jobs that captured the same values (see Dispatch).
NewJob(p, l, r, lrev, rrev, texts) ==
    [p |-> p, ldoc |-> l, rdoc |-> r, lrev |-> lrev, rrev |-> rrev,
     lrope |-> texts[l], rrope |-> texts[r], st |-> "running", res |-> None,
     dup |-> 0]

NoJob == [some |-> FALSE, ldoc |-> "d1", rdoc |-> "d1", lrev |-> 0,
          rrev |-> 0, lrope |-> <<>>, rrope |-> <<>>, dup |-> 0,
          over |-> FALSE]

\* What the gate of job j leaves in shown; over is set by Publish.
Captured(j) == [some |-> TRUE, ldoc |-> j.ldoc, rdoc |-> j.rdoc,
                lrev |-> j.lrev, rrev |-> j.rrev,
                lrope |-> j.lrope, rrope |-> j.rrope, dup |-> j.dup,
                over |-> FALSE]

\* Two jobs (or a job and a published result) of the same documents at the
\* same revisions.
SameCapture(j, k) ==
    /\ j.ldoc = k.ldoc /\ j.rdoc = k.rdoc
    /\ j.lrev = k.lrev /\ j.rrev = k.rrev

Max(S) == CHOOSE n \in S : \A m \in S : m <= n

\* A dispatch that cancels the jobs of the same pairing that still run.
Dispatch_Replacing(js, new) ==
    { k \in js : \A j \in new : ~(k.p = j.p /\ k.st = "running") } \cup new

\* rayon::spawn of the jobs in new: each is a closure of its own, also when
\* a job that captured the same values is in flight or has published; it
\* is numbered after them.
Dispatch(js, new) ==
    js \cup { [j EXCEPT !.dup =
                 Max({0} \cup { k.dup + 1 : k \in { x \in js :
                                     x.p = j.p /\ SameCapture(x, j) } }
                         \cup { shown[j.p].dup + 1 : k \in { x \in {shown[j.p]} :
                                     x.some /\ SameCapture(x, j) } })] :
               j \in new }

\* The reactive thread between two of its callbacks.
Idle == [pc |-> "idle"]

NoInfo == [some |-> FALSE, left_content |-> "Local", right_content |-> "Local"]

\* The rope of each document when the model starts: the file has three
\* lines, the scratch document is empty.
InitText(d) ==
    CASE d = "d1" -> <<"a", "b", "c">>
      [] OTHER    -> EmptyText

RECURSIVE SumRev(_, _)
SumRev(revs, ds) ==
    IF ds = {} THEN 0
    ELSE LET d == CHOOSE x \in ds : TRUE
         IN  revs[d] + SumRev(revs, ds \ {d})

(* ------------------------------- Init ---------------------------------- *)

Init ==
    /\ rev = [d \in Docs |-> 0]
    /\ text = [d \in Docs |-> InitText(d)]
    /\ alive = [p \in Pairings |-> FALSE]
    /\ left = [p \in Pairings |-> "d1"]
    /\ right = [p \in Pairings |-> "d1"]
    /\ memoL = [p \in Pairings |-> DocRev("d1", rev)]
    /\ memoR = [p \in Pairings |-> DocRev("d1", rev)]
    /\ viewL = [p \in Pairings |-> NormalView]
    /\ viewR = [p \in Pairings |-> NormalView]
    /\ jobs = {}
    /\ shown = [p \in Pairings |-> NoJob]
    /\ info = NoInfo
    /\ gate = "none"
    /\ repairs = 0
    /\ loaded = [d \in Docs |-> TRUE]
    /\ closed = [p \in Pairings |-> FALSE]
    /\ reactive = Idle
    /\ touched = FALSE
    /\ skipped = {}

\* The window before the file has been opened: to_data's get_doc makes the
\* file's document (new_doc is true) and its content arrives later.
InitLoad ==
    /\ rev = [d \in Docs |-> 0]
    /\ text = [d \in Docs |-> EmptyText]
    /\ alive = [p \in Pairings |-> FALSE]
    /\ left = [p \in Pairings |-> "d1"]
    /\ right = [p \in Pairings |-> "d1"]
    /\ memoL = [p \in Pairings |-> DocRev("d1", rev)]
    /\ memoR = [p \in Pairings |-> DocRev("d1", rev)]
    /\ viewL = [p \in Pairings |-> NormalView]
    /\ viewR = [p \in Pairings |-> NormalView]
    /\ jobs = {}
    /\ shown = [p \in Pairings |-> NoJob]
    /\ info = NoInfo
    /\ gate = "none"
    /\ repairs = 0
    /\ loaded = [d \in Docs |-> DocContentOf[d] # "File"]
    /\ closed = [p \in Pairings |-> FALSE]
    /\ reactive = Idle
    /\ touched = FALSE
    /\ skipped = {}

\* Memos, effect and ext actions made in a scope that outlives the pairing.
ScopeLive_Always(p) == TRUE

\* The memos, the effect and the ext actions of pairing p are made in its
\* scope (cx = self.scope): they exist as long as the scope is not disposed.
ScopeLive(p) == alive[p] /\ ~closed[p]

(* ------------------------- reactive propagation ------------------------ *)

\* An effect that is run for every revision the left buffer went through
\* since the last run, not for the revision it reads when it runs.
Spawned_PerRevision(p, l, r, revs, texts, glitch) ==
    LET nl == DocRev(l, revs)
        nr == DocRev(r, revs)
    IN  IF nl = memoL[p] /\ nr = memoR[p]
        THEN {}
        ELSE { NewJob(p, l, r, k, nr[2], texts) :
               k \in IF nl[1] = memoL[p][1] /\ nl[2] > memoL[p][2]
                     THEN (memoL[p][2] + 1) .. nl[2]
                     ELSE {nl[2]} }

\* An effect that runs on every update of a signal it reads.
Spawned_EveryUpdate(p, l, r, revs, texts, glitch) ==
    { NewJob(p, l, r, DocRev(l, revs)[2], DocRev(r, revs)[2], texts) }

\* The jobs the effect of pairing p spawns when the signals it depends on
\* have been updated: none when neither memo produces a new value, one when
\* one side's memo does. When both memos change in the same update (both
\* sides observe the same document) the effect runs once with both new
\* values, or (glitch) a first time when only the left memo has been
\* recomputed, and then a second time.
Spawned(p, l, r, revs, texts, glitch) ==
    LET nl == DocRev(l, revs)
        nr == DocRev(r, revs)
    IN  IF nl = memoL[p] /\ nr = memoR[p]
        THEN {}
        ELSE IF nl # memoL[p] /\ nr # memoR[p] /\ glitch
        THEN { NewJob(p, l, r, nl[2], memoR[p][2], texts),
               NewJob(p, l, r, nl[2], nr[2], texts) }
        ELSE { NewJob(p, l, r, nl[2], nr[2], texts) }

\* Every live pairing's memos and effect after an update of the documents or
\* of the editors' document: the memos take their new values and the jobs of
\* the effects join the jobs in flight.
Propagate(lefts, rights, revs, texts, glitch) ==
    /\ memoL' = [p \in Pairings |->
                   IF ScopeLive(p) THEN DocRev(lefts[p], revs) ELSE memoL[p]]
    /\ memoR' = [p \in Pairings |->
                   IF ScopeLive(p) THEN DocRev(rights[p], revs) ELSE memoR[p]]
    /\ jobs' = Dispatch(jobs,
                        UNION { Spawned(p, lefts[p], rights[p], revs, texts,
                                        glitch) :
                                p \in {q \in Pairings : ScopeLive(q)} })
    /\ Cardinality(jobs') <= MaxJobs

(* ---------------------------- construction ----------------------------- *)

\* Listeners whose effect waits for the first change of a memo.
listen_diff_changes_NoFirstRun(p, l, r) ==
    /\ memoL' = [memoL EXCEPT ![p] = DocRev(l, rev)]
    /\ memoR' = [memoR EXCEPT ![p] = DocRev(r, rev)]
    /\ jobs' = jobs

\* listen_diff_changes of a pairing over documents l and r: both memos are
\* computed and the effect runs once, which spawns the first job.
listen_diff_changes(p, l, r) ==
    /\ memoL' = [memoL EXCEPT ![p] = DocRev(l, rev)]
    /\ memoR' = [memoR EXCEPT ![p] = DocRev(r, rev)]
    /\ jobs' = Dispatch(jobs, { NewJob(p, l, r, rev[l], rev[r], text) })
    /\ Cardinality(jobs') <= MaxJobs

\* DiffEditorData::new(cx, id, editor_tab_id, left_doc, right_doc, common).
New(left_doc, right_doc) ==
    /\ ~alive["p1"]
    /\ alive' = [alive EXCEPT !["p1"] = TRUE]
    /\ left' = [left EXCEPT !["p1"] = left_doc]
    /\ right' = [right EXCEPT !["p1"] = right_doc]
    /\ listen_diff_changes("p1", left_doc, right_doc)
    /\ UNCHANGED <<rev, text, viewL, viewR, shown, info, gate, repairs, aux>>

\* new_editor of DiffEditorInfo::to_data: the document of a content
\* descriptor: the file's document, or a new scratch document.
new_editor(content) == IF content = "File" THEN "d1" ELSE "d2"

\* DiffEditorInfo { left_content, right_content }.to_data(data, editor_tab_id).
\* The window has one scratch document to give out, which must be unused.
ToData(left_content, right_content) ==
    /\ ~alive["p1"]
    /\ left_content = "File" \/ right_content = "File"
    /\ rev["d2"] = 0
    /\ alive' = [alive EXCEPT !["p1"] = TRUE]
    /\ left' = [left EXCEPT !["p1"] = new_editor(left_content)]
    /\ right' = [right EXCEPT !["p1"] = new_editor(right_content)]
    /\ listen_diff_changes("p1", new_editor(left_content),
                           new_editor(right_content))
    /\ UNCHANGED <<rev, text, viewL, viewR, shown, info, gate, repairs, aux>>

\* DiffEditorData::copy(cx, diff_editor_id): the copy's editors are copies
\* of the original's editors over the same documents.
Copy ==
    /\ alive["p1"] /\ ~alive["p2"]
    /\ alive' = [alive EXCEPT !["p2"] = TRUE]
    /\ left' = [left EXCEPT !["p2"] = left["p1"]]
    /\ right' = [right EXCEPT !["p2"] = right["p1"]]
    /\ viewL' = [viewL EXCEPT !["p2"] = viewL["p1"]]
    /\ viewR' = [viewR EXCEPT !["p2"] = viewR["p1"]]
    /\ listen_diff_changes("p2", left["p1"], right["p1"])
    /\ UNCHANGED <<rev, text, shown, info, gate, repairs, aux>>

\* DiffEditorData::diff_editor_info.
diff_editor_info(p) ==
    /\ alive[p]
    /\ info' = [some |-> TRUE,
                left_content  |-> DocContentOf[left[p]],
                right_content |-> DocContentOf[left[p]]]
    /\ UNCHANGED <<rev, text, alive, left, right, memoL, memoR, viewL, viewR,
                   jobs, shown, gate, repairs, aux>>

(* ------------------------ edits and re-pairing ------------------------- *)

\* An edit of document d: the buffer's revision goes up by one, its rope
\* becomes t, and the memos and effects of the pairings that observe d run.
Edit(d, t) ==
    /\ SumRev(rev, Docs) + repairs < MaxEdits
    /\ t # text[d]
    /\ rev' = [rev EXCEPT ![d] = rev[d] + 1]
    /\ text' = [text EXCEPT ![d] = t]
    /\ \E glitch \in BOOLEAN : Propagate(left, right, rev', text', glitch)
    /\ UNCHANGED <<alive, left, right, viewL, viewR, shown, info, gate, repairs, aux>>

\* n edits of document d inside one update of its signal: the revision goes
\* up by n, the rope becomes t, and the memos and effects run once, after the
\* last of the edits.
EditBatch(d, n, t) ==
    /\ n >= 2
    /\ SumRev(rev, Docs) + repairs + n <= MaxEdits
    /\ rev' = [rev EXCEPT ![d] = rev[d] + n]
    /\ text' = [text EXCEPT ![d] = t]
    /\ skipped' = skipped \cup { <<d, k>> : k \in (rev[d] + 1) .. (rev[d] + n - 1) }
    /\ \E glitch \in BOOLEAN : Propagate(left, right, rev', text', glitch)
    /\ UNCHANGED <<alive, left, right, viewL, viewR, shown, info, gate, repairs,
                   loaded, closed, reactive, touched>>

\* The signal of document d is updated (doc.update) by something that is not
\* an edit: content and revision stay, the memos that read it are computed
\* again.
Touch(d) ==
    /\ \E p \in Pairings : alive[p] /\ (left[p] = d \/ right[p] = d)
    /\ touched' = TRUE
    /\ Propagate(left, right, rev, text, FALSE)
    /\ UNCHANGED <<rev, text, alive, left, right, viewL, viewR, shown, info,
                   gate, repairs, loaded, closed, reactive, skipped>>

\* The left editor of pairing p is given another document (identity change).
SetLeftDoc(p, d) ==
    /\ alive[p]
    /\ d # left[p]
    /\ SumRev(rev, Docs) + repairs < MaxEdits
    /\ repairs' = repairs + 1
    /\ left' = [left EXCEPT ![p] = d]
    /\ Propagate(left', right, rev, text, FALSE)
    /\ UNCHANGED <<rev, text, alive, right, viewL, viewR, shown, info, gate, aux>>

\* The right editor of pairing p is given another document.
SetRightDoc(p, d) ==
    /\ alive[p]
    /\ d # right[p]
    /\ SumRev(rev, Docs) + repairs < MaxEdits
    /\ repairs' = repairs + 1
    /\ right' = [right EXCEPT ![p] = d]
    /\ Propagate(left, right', rev, text, FALSE)
    /\ UNCHANGED <<rev, text, alive, left, viewL, viewR, shown, info, gate, aux>>

\* The content of file document d, asked for by get_doc when the pairing
\* was built, arrives: the buffer takes it as its first edit.
Load(d, t) ==
    /\ ~loaded[d]
    /\ \E p \in Pairings : alive[p] /\ (left[p] = d \/ right[p] = d)
    /\ loaded' = [loaded EXCEPT ![d] = TRUE]
    /\ rev' = [rev EXCEPT ![d] = rev[d] + 1]
    /\ text' = [text EXCEPT ![d] = t]
    /\ \E glitch \in BOOLEAN : Propagate(left, right, rev', text', glitch)
    /\ UNCHANGED <<alive, left, right, viewL, viewR, shown, info, gate, repairs,
                   closed, reactive, touched, skipped>>

\* The diff view of pairing p is closed: its scope is disposed.
Close(p) ==
    /\ alive[p] /\ ~closed[p]
    /\ closed' = [closed EXCEPT ![p] = TRUE]
    /\ UNCHANGED <<rev, text, alive, left, right, memoL, memoR, viewL, viewR,
                   jobs, shown, info, gate, repairs, loaded, reactive, touched,
                   skipped>>

(* ------------------------- worker and result gate ---------------------- *)

\* A worker that gives rope_diff the left revision as the revision to
\* compare the right buffer's atomic revision with.
Worker_LeftRevToken(j) ==
    /\ j \in jobs
    /\ j.st = "running"
    /\ \E res \in rope_diff(j.lrope, j.rrope, j.lrev, rev[j.rdoc]) :
          jobs' = (jobs \ {j}) \cup {[j EXCEPT !.st = "sent", !.res = res]}
    /\ UNCHANGED <<rev, text, alive, left, right, memoL, memoR, viewL, viewR,
                   shown, info, gate, repairs, aux>>

\* The closure given to rayon::spawn: rope_diff on the captured ropes, then
\* send(changes), which queues the gate on the reactive thread.
Worker(j) ==
    /\ j \in jobs
    /\ j.st = "running"
    /\ \E res \in rope_diff(j.lrope, j.rrope, j.rrev, rev[j.rdoc]) :
          jobs' = (jobs \ {j}) \cup {[j EXCEPT !.st = "sent", !.res = res]}
    /\ UNCHANGED <<rev, text, alive, left, right, memoL, memoR, viewL, viewR,
                   shown, info, gate, repairs, aux>>

\* The left check left out.
LeftRevCurrent_Unchecked(j) == TRUE

\* The gate's first check: left_atomic_rev.load(Acquire) != left_rev returns.
LeftRevCurrent(j) == rev[j.ldoc] = j.lrev

\* The right check left out.
RightRevCurrent_Unchecked(j) == TRUE

\* The gate's second check: right_atomic_rev.load(Acquire) != right_rev returns.
RightRevCurrent(j) == rev[j.rdoc] = j.rrev

\* A gate that returns only when both revisions moved.
GateOutcome_BothMoved(j) ==
    IF ~j.res.some THEN "aborted"
    ELSE IF ~LeftRevCurrent(j) /\ ~RightRevCurrent(j) THEN "stale_left"
    ELSE "published"

\* A gate that takes None for no changes (unwrap_or_default) and re-checks
\* the right revision only for changes the worker computed.
GateOutcome_NoneAsEmpty(j) ==
    IF ~LeftRevCurrent(j) THEN "stale_left"
    ELSE IF j.res.some /\ ~RightRevCurrent(j) THEN "stale_right"
    ELSE "published"

\* What the ext action does with the changes it is sent: it returns on None,
\* then on a left revision that moved, then on a right revision that moved,
\* and publishes otherwise.
GateOutcome(j) ==
    IF ~j.res.some THEN "aborted"
    ELSE IF ~LeftRevCurrent(j) THEN "stale_left"
    ELSE IF ~RightRevCurrent(j) THEN "stale_right"
    ELSE "published"

\* The history of a publication: over tells that the views held the result
\* of a job dispatched later for the same documents and revisions.
Published_As(j) ==
    [Captured(j) EXCEPT !.over = /\ shown[j.p].some
                                 /\ SameCapture(shown[j.p], j)
                                 /\ shown[j.p].dup > j.dup]

\* A publication by a copy whose editors kept the view signals of the
\* editors they were copied from.
Publish_ToOriginal(j) ==
    /\ viewL' = [viewL EXCEPT !["p1"] = DiffView(FALSE, j.res.changes)]
    /\ viewR' = [viewR EXCEPT !["p1"] = DiffView(TRUE, j.res.changes)]
    /\ shown' = [shown EXCEPT ![j.p] = Published_As(j)]

\* A publication that writes the left view only.
Publish_LeftOnly(j) ==
    /\ viewL' = [viewL EXCEPT ![j.p] = DiffView(FALSE, j.res.changes)]
    /\ viewR' = viewR
    /\ shown' = [shown EXCEPT ![j.p] = Published_As(j)]

\* The two view writes of the gate: left_editor_view.set(Diff { is_right:
\* false, changes.clone() }), right_editor_view.set(Diff { is_right: true,
\* changes }).
Publish(j) ==
    /\ viewL' = [viewL EXCEPT ![j.p] = DiffView(FALSE, j.res.changes)]
    /\ viewR' = [viewR EXCEPT ![j.p] = DiffView(TRUE, j.res.changes)]
    /\ shown' = [shown EXCEPT ![j.p] = Published_As(j)]

\* The ext action created by create_ext_action (the result gate), run on the
\* reactive thread with the changes the worker sent. The changes sent to an
\* ext action whose scope has been disposed are dropped.
Gate(j) ==
    /\ j \in jobs
    /\ j.st = "sent"
    /\ jobs' = jobs \ {j}
    /\ gate' = IF ScopeLive(j.p) THEN GateOutcome(j) ELSE "dropped"
    /\ IF ScopeLive(j.p) /\ GateOutcome(j) = "published"
       THEN Publish(j)
       ELSE UNCHANGED <<viewL, viewR, shown>>
    /\ UNCHANGED <<rev, text, alive, left, right, memoL, memoR, info, repairs, aux>>

(* ----------------------- the gate, check by check ---------------------- *)

\* An ext action that runs on the thread of the worker, whatever the
\* reactive thread is doing.
ReactiveIdle_Always == TRUE

\* create_ext_action(cx, ...) makes the gate a callback of the reactive
\* thread: it starts, like an edit or a run of the effect, only when that
\* thread is between two callbacks.
ReactiveIdle == reactive = Idle

\* The ext action starts with the changes of job j: it returns on None
\* (diff.rs 204-208) and on a left revision that moved (diff.rs 210-214).
GateLeftCheck(j) ==
    /\ ReactiveIdle
    /\ j \in jobs
    /\ j.st = "sent"
    /\ jobs' = jobs \ {j}
    /\ IF ~ScopeLive(j.p)
       THEN gate' = "dropped" /\ reactive' = Idle
       ELSE IF ~j.res.some
       THEN gate' = "aborted" /\ reactive' = Idle
       ELSE IF ~LeftRevCurrent(j)
       THEN gate' = "stale_left" /\ reactive' = Idle
       ELSE gate' = gate /\ reactive' = [pc |-> "left_ok", job |-> j]
    /\ UNCHANGED <<rev, text, alive, left, right, memoL, memoR, viewL, viewR,
                   shown, info, repairs, loaded, closed, touched, skipped>>

\* The ext action goes on: it returns on a right revision that moved
\* (diff.rs 216-220).
GateRightCheck ==
    /\ reactive.pc = "left_ok"
    /\ IF ~RightRevCurrent(reactive.job)
       THEN gate' = "stale_right" /\ reactive' = Idle
       ELSE gate' = gate /\ reactive' = [reactive EXCEPT !.pc = "right_ok"]
    /\ UNCHANGED <<rev, text, alive, left, right, memoL, memoR, viewL, viewR,
                   jobs, shown, info, repairs, loaded, closed, touched, skipped>>

\* The ext action ends: the two view writes (diff.rs 222-229).
GateWrite ==
    /\ reactive.pc = "right_ok"
    /\ Publish(reactive.job)
    /\ gate' = "published"
    /\ reactive' = Idle
    /\ UNCHANGED <<rev, text, alive, left, right, memoL, memoR, jobs, info,
                   repairs, loaded, closed, touched, skipped>>

(* ---------------------------- specification ---------------------------- *)

Next ==
    \/ \E l, r \in Docs : New(l, r)
    \/ \E lc, rc \in {"File", "Local", "History"} : ToData(lc, rc)
    \/ \E d \in Docs, t \in Texts : Edit(d, t)
    \/ \E p \in Pairings, d \in Docs : SetLeftDoc(p, d)
    \/ \E p \in Pairings, d \in Docs : SetRightDoc(p, d)
    \/ \E j \in jobs : Worker(j)
    \/ \E j \in jobs : Gate(j)

Spec == Init /\ [][Next]_vars

\* As Next, with the right editor keeping the document it was built over.
NextLeft ==
    \/ \E l, r \in Docs : New(l, r)
    \/ \E lc, rc \in {"File", "Local", "History"} : ToData(lc, rc)
    \/ \E d \in Docs, t \in Texts : Edit(d, t)
    \/ \E p \in Pairings, d \in Docs : SetLeftDoc(p, d)
    \/ \E j \in jobs : Worker(j)
    \/ \E j \in jobs : Gate(j)

SpecLeft == Init /\ [][NextLeft]_vars

\* The pairing is built, its editors are given documents, the documents are
\* edited and the pairing is asked for its DiffEditorInfo.
NextInfo ==
    \/ \E l, r \in Docs : New(l, r)
    \/ \E lc, rc \in {"File", "Local", "History"} : ToData(lc, rc)
    \/ \E d \in Docs, t \in Texts : Edit(d, t)
    \/ \E p \in Pairings, d \in Docs : SetLeftDoc(p, d)
    \/ \E p \in Pairings, d \in Docs : SetRightDoc(p, d)
    \/ \E p \in Pairings : diff_editor_info(p)

SpecInfo == Init /\ [][NextInfo]_vars

\* The documents are edited by other editors, then the pairing is built
\* and copied, and from then on the documents are left alone.
NextBuild ==
    \/ \E d \in Docs, t \in Texts : ~alive["p1"] /\ Edit(d, t)
    \/ \E l, r \in Docs : New(l, r)
    \/ \E lc, rc \in {"File", "Local", "History"} : ToData(lc, rc)
    \/ Copy
    \/ \E j \in jobs : Worker(j)
    \/ \E j \in jobs : Gate(j)

SpecBuild == Init /\ [][NextBuild]_vars

\* The pairing is built by to_data before the file's content has arrived;
\* a document is edited once it has its content.
NextLoad ==
    \/ \E lc, rc \in {"File", "Local", "History"} : ToData(lc, rc)
    \/ \E d \in Docs, t \in Texts : Load(d, t)
    \/ \E d \in Docs, t \in Texts : loaded[d] /\ Edit(d, t)
    \/ \E j \in jobs : Worker(j)
    \/ \E j \in jobs : Gate(j)

SpecLoad == InitLoad /\ [][NextLoad]_vars

\* A pairing of the file and the scratch document: edits, the left editor
\* given another document, and signal updates that change neither content
\* nor revision.
NextTouch ==
    \/ New("d1", "d2")
    \/ \E d \in Docs, t \in Texts : Edit(d, t)
    \/ \E p \in Pairings, d \in Docs : SetLeftDoc(p, d)
    \/ \E d \in Docs : Touch(d)
    \/ \E j \in jobs : Worker(j)
    \/ \E j \in jobs : Gate(j)

SpecTouch == Init /\ [][NextTouch]_vars

\* A pairing of the file and the scratch document: edits and the left
\* editor given another document, while jobs run and results wait for their
\* gate.
NextJobs ==
    \/ New("d1", "d2")
    \/ \E d \in Docs, t \in Texts : Edit(d, t)
    \/ \E p \in Pairings, d \in Docs : SetLeftDoc(p, d)
    \/ \E j \in jobs : Worker(j)
    \/ \E j \in jobs : Gate(j)

SpecJobs == Init /\ [][NextJobs]_vars

\* A pairing of the file with itself or with the scratch document is built
\* and copied, and the documents are edited.
NextCopy ==
    \/ \E r \in Docs : New("d1", r)
    \/ Copy
    \/ \E d \in Docs, t \in Texts : Edit(d, t)
    \/ \E j \in jobs : Worker(j)
    \/ \E j \in jobs : Gate(j)

SpecCopy == Init /\ [][NextCopy]_vars

\* The pairing is built, its documents are edited, and its diff view is
\* closed while other editors go on editing the documents.
NextClose ==
    \/ \E l, r \in Docs : New(l, r)
    \/ \E d \in Docs, t \in Texts : Edit(d, t)
    \/ \E p \in Pairings : Close(p)
    \/ \E j \in jobs : Worker(j)
    \/ \E j \in jobs : Gate(j)

SpecClose == Init /\ [][NextClose]_vars

\* The gate taken check by check. Construction, edits and the start of a
\* gate are callbacks of the reactive thread; the workers run beside it.
NextSteps ==
    \/ \E l, r \in Docs : ReactiveIdle /\ New(l, r)
    \/ \E d \in Docs, t \in Texts : ReactiveIdle /\ Edit(d, t)
    \/ \E j \in jobs : Worker(j)
    \/ \E j \in jobs : GateLeftCheck(j)
    \/ GateRightCheck
    \/ GateWrite

SpecSteps == Init /\ [][NextSteps]_vars

\* Single edits and several edits inside one signal update.
NextBatch ==
    \/ \E l, r \in Docs : New(l, r)
    \/ \E d \in Docs, t \in Texts : Edit(d, t)
    \/ \E d \in Docs, n \in 2..MaxEdits, t \in Texts \cup {EmptyText} :
          EditBatch(d, n, t)
    \/ \E j \in jobs : Worker(j)
    \/ \E j \in jobs : Gate(j)

SpecBatch == Init /\ [][NextBatch]_vars

\* Every job spawned on the rayon pool runs to its end, and every ext action
\* sent to the reactive thread is run.
FairSpec ==
    /\ Spec
    /\ WF_vars(\E j \in jobs : Worker(j))
    /\ WF_vars(\E j \in jobs : Gate(j))

FairSpecBuild ==
    /\ SpecBuild
    /\ WF_vars(\E j \in jobs : Worker(j))
    /\ WF_vars(\E j \in jobs : Gate(j))

(* ------------------------------- claims -------------------------------- *)

\* The gate run of job j wrote the two views.
Published(j) == Gate(j) /\ gate' = "published"

\* C1: whenever the result gate of a job publishes, the current revision of
\* the left buffer the job captured equals the left revision captured at
\* dispatch and the current revision of its right buffer equals the right
\* revision captured at dispatch.
C1_PublishOnlyAtCapturedRevs ==
    [][\A j \in jobs :
          Published(j) => rev[j.ldoc] = j.lrev /\ rev[j.rdoc] = j.rrev]_vars

\* A gate has published the result of a job dispatched after an edit.
C1_Witness ==
    /\ gate = "published"
    /\ viewL["p1"].kind = "Diff"
    /\ shown["p1"].lrev + shown["p1"].rrev > 0

\* C2: every published result was computed from snapshots whose content is
\* the content, at publication time, of the buffers paired with the left and
\* the right editor.
C2_PublishedFromPairedContent ==
    [][\A j \in jobs :
          Published(j) => /\ j.lrope = text[left[j.p]]
                          /\ j.rrope = text[right[j.p]]]_vars

\* C3: with jobs dispatched at successive revisions, a job publishes only if
\* no job in flight captured a later revision of one of its buffers, and a
\* job that captured an earlier revision than the current one never
\* publishes.
C3_OnlyFinalRevsPublish ==
    [][\A j \in jobs :
          Published(j) =>
             /\ ~(j.lrev < rev[j.ldoc]) /\ ~(j.rrev < rev[j.rdoc])
             /\ \A k \in jobs :
                   /\ k.ldoc = j.ldoc => k.lrev <= j.lrev
                   /\ k.rdoc = j.rdoc => k.rrev <= j.rrev]_vars

\* The job of the third revision r3 has published while the jobs captured
\* at r1 and r2 < r3 of the same buffer still wait for their gate.
C3_Witness ==
    /\ gate = "published"
    /\ \E j1, j2 \in jobs :
          /\ j1.p = "p1" /\ j2.p = "p1"
          /\ j1.ldoc = shown["p1"].ldoc /\ j2.ldoc = shown["p1"].ldoc
          /\ j1.lrev < j2.lrev /\ j2.lrev < shown["p1"].lrev

\* C4: a gate run of a job whose left or right revision moved since the job
\* captured it leaves the left and the right view as they were.
C4_StaleResultDiscarded ==
    [][\A j \in jobs :
          (Gate(j) /\ (rev[j.ldoc] # j.lrev \/ rev[j.rdoc] # j.rrev))
             => viewL' = viewL /\ viewR' = viewR]_vars

\* A gate has discarded a computed result for a moved revision while the
\* views held an earlier result.
C4_Witness ==
    /\ gate \in {"stale_left", "stale_right"}
    /\ viewL["p1"].kind = "Diff"
    /\ viewR["p1"].kind = "Diff"

\* C5: the captured revisions of the results a pairing publishes never go
\* backwards: a publication never carries an older revision of a buffer
\* than the publication before it.
C5_PublicationsNeverGoBack ==
    [][\A j \in jobs :
          (Published(j) /\ shown[j.p].some) =>
             /\ shown[j.p].ldoc = j.ldoc => shown[j.p].lrev <= j.lrev
             /\ shown[j.p].rdoc = j.rdoc => shown[j.p].rrev <= j.rrev]_vars

\* The views hold the result of the current revisions, reached by an edit,
\* and the gate run after that publication rejected a job.
C5_Witness ==
    /\ gate \in {"stale_left", "stale_right"}
    /\ shown["p1"].some
    /\ shown["p1"].ldoc = left["p1"] /\ shown["p1"].rdoc = right["p1"]
    /\ shown["p1"].lrev = rev[left["p1"]]
    /\ shown["p1"].rrev = rev[right["p1"]]
    /\ shown["p1"].lrev + shown["p1"].rrev > 0

\* C6: publication is both-or-neither: in every state the two views of a
\* pairing are both not a diff, or the left one is Diff with is_right false
\* and the right one Diff with is_right true, with the same changes.
C6_BothOrNeither ==
    \A p \in Pairings :
       \/ viewL[p] = NormalView /\ viewR[p] = NormalView
       \/ /\ viewL[p] = DiffView(FALSE, viewL[p].changes)
          /\ viewR[p] = DiffView(TRUE, viewL[p].changes)

\* Both views hold a published diff with changes in it.
C6_Witness ==
    /\ viewL["p1"].kind = "Diff" /\ viewR["p1"].kind = "Diff"
    /\ viewL["p1"].changes # <<>>
    /\ gate = "published"

\* C7: a gate run with None changes neither view.
C7_NoneNeverPublishes ==
    [][\A j \in jobs :
          (Gate(j) /\ ~j.res.some) => viewL' = viewL /\ viewR' = viewR]_vars

\* A gate has run with None.
C7_Witness == gate = "aborted"

\* Both views of pairing p hold the result of a job that captured the
\* current revisions of the buffers paired with its editors.
Converged(p) ==
    /\ viewL[p].kind = "Diff" /\ viewR[p].kind = "Diff"
    /\ shown[p].lrev = rev[left[p]]
    /\ shown[p].rrev = rev[right[p]]

\* C8: once the edits have stopped and every job has completed and been
\* through its gate, both views hold a result whose captured revisions are
\* the final revisions of the left and the right buffer.
C8_QuiescentConverged ==
    (alive["p1"] /\ jobs = {}) => Converged("p1")

\* C9: diff_editor_info returns the content descriptor of the left editor's
\* document as left_content and that of the right editor's document as
\* right_content.
C9_InfoDescribesBothSides ==
    [][\A p \in Pairings :
          diff_editor_info(p) =>
             /\ info'.left_content = DocContentOf[left[p]]
             /\ info'.right_content = DocContentOf[right[p]]]_vars

\* C10: every construction of a pairing (to_data, new, copy) installs the
\* listeners and spawns a first job for the current revisions and ropes of
\* its two documents, and with no edit after the construction the pairing
\* eventually has a result published by its gate.
C10_FirstDiffWithoutEdit ==
    /\ [][\A p \in Pairings :
             (~alive[p] /\ alive'[p]) =>
                /\ memoL'[p] = DocRev(left'[p], rev)
                /\ memoR'[p] = DocRev(right'[p], rev)
                /\ \E j \in jobs' \ jobs :
                      /\ j.p = p /\ j.st = "running"
                      /\ j.ldoc = left'[p] /\ j.rdoc = right'[p]
                      /\ j.lrev = rev[j.ldoc] /\ j.rrev = rev[j.rdoc]
                      /\ j.lrope = text[j.ldoc]
                      /\ j.rrope = text[j.rdoc]]_vars
    /\ \A p \in Pairings : [](alive[p] => <>shown[p].some)

\* A pairing built by to_data or new over documents at a later revision,
\* and its copy, have both published without any edit after construction.
C10_Witness ==
    /\ alive["p2"] /\ shown["p2"].some /\ shown["p1"].some
    /\ viewL["p2"].kind = "Diff" /\ viewL["p1"].kind = "Diff"
    /\ shown["p2"].lrev + shown["p2"].rrev > 0

\* C11: no job is dispatched while the buffer of one of its sides is not
\* resolved: every job that a step spawns is over two documents whose content
\* has been loaded.
C11_NoDispatchWhileUnresolved ==
    [][\A j \in jobs' \ jobs :
          j.st = "running" => loaded'[j.ldoc] /\ loaded'[j.rdoc]]_vars

\* C12: a job is dispatched for a live pairing only by a step in which the
\* (content, revision) value of its left or of its right memo becomes
\* another value; an update of a signal that leaves both values as they
\* were dispatches no job.
C12_DispatchOnlyOnNewPair ==
    [][/\ \A j \in jobs' \ jobs :
             (j.st = "running" /\ alive[j.p]) =>
                memoL'[j.p] # memoL[j.p] \/ memoR'[j.p] # memoR[j.p]
       /\ \A d \in Docs : Touch(d) => jobs' = jobs]_vars

\* A signal was updated with content and revision unchanged, and the only
\* job the pairing ever had is the one of its construction, now published.
C12_Witness ==
    /\ touched /\ alive["p1"] /\ jobs = {}
    /\ shown["p1"].some /\ gate = "published"
    /\ SumRev(rev, Docs) + repairs = 0

\* C13: when the revision of a buffer goes up several times inside one
\* signal update, every pairing that observes the buffer dispatches a job
\* that captured the final revisions, and no job in flight and no published
\* result ever carries one of the revisions in between.
C13_CoalescedToFinalRev ==
    /\ [](\A j \in jobs \cup { shown[p] : p \in Pairings } :
             /\ <<j.ldoc, j.lrev>> \notin skipped
             /\ <<j.rdoc, j.rrev>> \notin skipped)
    /\ [][\A d \in Docs :
             rev'[d] > rev[d] + 1 =>
                \A p \in Pairings :
                   (alive[p] /\ (left[p] = d \/ right[p] = d)) =>
                      \E j \in jobs' \ jobs :
                         /\ j.p = p /\ j.st = "running"
                         /\ j.lrev = rev'[j.ldoc] /\ j.rrev = rev'[j.rdoc]
                         /\ j.lrope = text'[j.ldoc]
                         /\ j.rrope = text'[j.rdoc]]_vars

\* A buffer went from one revision to the next but one inside one update,
\* and the job that captured the final revision has published.
C13_Witness ==
    /\ gate = "published"
    /\ \E x \in skipped :
          /\ shown["p1"].ldoc = x[1]
          /\ shown["p1"].lrev > x[2]
          /\ shown["p1"].lrev = rev[x[1]]

\* C14: a job in flight leaves the jobs in flight only through its own worker
\* step, which sends its result, and then through its own gate; a step that
\* dispatches a job keeps every job already in flight; and whatever else is
\* in flight, a running job can complete and a sent result can run its gate,
\* which publishes or rejects it.
C14_FireAndForget ==
    /\ [](\A j \in jobs :
             /\ j.st = "running" => ENABLED Worker(j)
             /\ j.st = "sent" => ENABLED Gate(j))
    /\ [][/\ \A j \in jobs \ jobs' :
                \/ /\ j.st = "running"
                   /\ \E k \in jobs' \ jobs :
                         /\ k = [j EXCEPT !.st = "sent", !.res = k.res]
                         /\ jobs' \ {k} = jobs \ {j}
                \/ /\ j.st = "sent"
                   /\ jobs' = jobs \ {j}
                   /\ gate' \in {"published", "aborted", "stale_left",
                                 "stale_right", "dropped"}
          /\ (\E k \in jobs' \ jobs : k.st = "running") => jobs \subseteq jobs'
      ]_vars

\* Three jobs of one pairing are in flight at once, one of them dispatched
\* while the result of another was already waiting for its gate, and an
\* earlier job has been through its gate.
C14_Witness ==
    /\ gate # "none"
    /\ \E j1, j2, j3 \in jobs :
          /\ j1 # j2 /\ j2 # j3 /\ j1 # j3
          /\ j1.p = "p1" /\ j2.p = "p1" /\ j3.p = "p1"
          /\ j1.st = "sent" /\ j3.st = "running"
          /\ j1.lrev + j1.rrev < j3.lrev + j3.rrev

\* C15: the left check, the right check and the two view writes of a gate
\* run as one step of the reactive thread: from the left check to the view
\* writes no revision and no rope changes, no job is dispatched and no other
\* gate starts, so the revisions the gate has checked are still the current
\* ones at each later point of the gate and when it publishes.
C15_GateIsOneStep ==
    /\ [](reactive.pc # "idle" =>
             /\ rev[reactive.job.ldoc] = reactive.job.lrev
             /\ reactive.pc = "right_ok" =>
                    rev[reactive.job.rdoc] = reactive.job.rrev)
    /\ [][reactive.pc # "idle" =>
             /\ rev' = rev /\ text' = text
             /\ left' = left /\ right' = right
             /\ \A j \in jobs' \ jobs : j.st = "sent"
             /\ jobs \ jobs' \subseteq { j \in jobs : j.st = "running" }
             /\ reactive'.pc # "idle" => reactive'.job = reactive.job
             /\ (reactive'.pc = "idle" /\ gate' = "published") =>
                    /\ rev'[reactive.job.ldoc] = reactive.job.lrev
                    /\ rev'[reactive.job.rdoc] = reactive.job.rrev]_vars

\* A gate is between its right check and its view writes while a job
\* runs, a result waits for its gate and the documents can still be edited.
C15_Witness ==
    /\ reactive.pc = "right_ok"
    /\ SumRev(rev, Docs) + repairs < MaxEdits
    /\ \E j, k \in jobs : j.st = "running" /\ k.st = "sent"

\* C16: the worker's early return is not needed and loses no result: a job
\* whose worker returned None would have been rejected by the gate's
\* revision checks had the worker computed its changes instead, so with the
\* early return disabled the same results are published.
C16_AbortedWouldBeRejected ==
    \A j \in jobs :
       (j.st = "sent" /\ ~j.res.some) =>
          /\ ~RightRevCurrent(j)
          /\ GateOutcome([j EXCEPT !.res = Some(LineDiff(j.lrope, j.rrope))])
                \in {"stale_left", "stale_right"}

\* A worker returned None for a job whose left revision is still current
\* while the views hold an earlier result.
C16_Witness ==
    /\ viewL["p1"].kind = "Diff"
    /\ \E j \in jobs :
          /\ j.st = "sent" /\ ~j.res.some /\ j.p = "p1"
          /\ LeftRevCurrent(j)

\* C17: when a job passes the gate of a pairing whose views hold the result
\* of another job for the same documents, and no edit of these documents
\* came after that other job was dispatched, the job publishes the changes
\* the views hold already: both views are after its publication what they
\* were before, also when the job is the older of the two.
C17_HarmlessClobbering ==
    [][\A j \in jobs :
          (/\ Published(j)
           /\ shown[j.p].some
           /\ shown[j.p].ldoc = j.ldoc /\ shown[j.p].rdoc = j.rdoc
           /\ shown[j.p].lrev = rev[j.ldoc]
           /\ shown[j.p].rrev = rev[j.rdoc])
             => /\ j.res.changes = viewL[j.p].changes
                /\ viewL' = viewL /\ viewR' = viewR]_vars

\* Two jobs of the same documents and revisions were in flight together and
\* both passed the gate, the one dispatched first after the other.
C17_Witness ==
    /\ gate = "published"
    /\ shown["p1"].over
    /\ viewL["p1"].changes # <<>>

\* C18: once the scope of a pairing has been disposed, no step writes a view
\* of the pairing, the gate run of a job of the pairing changes nothing but
\* the jobs in flight, and no job is dispatched for the pairing, whatever
\* edits come later.
C18_TornDownIsInert ==
    [][\A p \in Pairings :
          closed[p] =>
             /\ viewL'[p] = viewL[p] /\ viewR'[p] = viewR[p]
             /\ shown'[p] = shown[p]
             /\ memoL'[p] = memoL[p] /\ memoR'[p] = memoR[p]
             /\ \A j \in jobs' \ jobs : j.p = p => j.st = "sent"]_vars

\* After the scope was disposed a computed result of the pairing went
\* through its gate, and an edit of a document of the pairing has moved its
\* revision past the one the memo holds.
C18_Witness ==
    /\ closed["p1"]
    /\ gate = "dropped"
    /\ jobs = {}
    /\ memoL["p1"][2] < rev[left["p1"]]

====
